---- MODULE Spec2Model ----
(***************************************************************************)
(* Assignment Evaluation API (src/app.py, src/eval_gen_api.py).            *)
(*                                                                         *)
(* Each POST endpoint validates the request body, calls the external       *)
(* model once, strips a Markdown code fence from the reply, parses the     *)
(* rest as JSON and maps the parsed value onto a typed response, or ends   *)
(* with an internal error.  Text is a sequence of chunks: a chunk is one   *)
(* structural character, one white-space character, the fence marker, or   *)
(* a run of ordinary characters.                                           *)
(***************************************************************************)
EXTENDS Integers, Sequences, FiniteSets, TLC

VARIABLES pc, ep, body, reply, resp, calls, service

vars == <<pc, ep, body, reply, resp, calls, service>>

(***************************************************************************)
(* Characters                                                              *)
(***************************************************************************)
\* the fence marker: three backticks
FENCE == "<fence>"
NL    == "\n"
SP    == " "
\* U+2028 LINE SEPARATOR: white space and a line boundary for Python's str,
\* an ordinary character for JSON (legal, unescaped, inside a string).
LS    == "U+2028"
QUOTE == "\""

\* str.isspace, as str.strip() uses it
IsSpace(c) == c \in {SP, NL, LS}

\* the line boundaries str.splitlines() splits on
IsLineBreak(c) == c \in {NL, LS}

\* the white space json.loads skips between tokens
IsJsonWs(c) == c \in {SP, NL}

(***************************************************************************)
(* The str methods the handlers use                                        *)
(***************************************************************************)
\* s.strip(): from the first to the last character that is not white space
strip(s) ==
    LET kept == {i \in 1..Len(s) : ~IsSpace(s[i])}
    IN  IF kept = {} THEN <<>>
        ELSE SubSeq(s, CHOOSE i \in kept : \A j \in kept : i <= j,
                       CHOOSE i \in kept : \A j \in kept : j <= i)

startswith(s, prefix) == s # <<>> /\ s[1] = prefix

\* s.splitlines(): the text between consecutive line boundaries; a boundary
\* at the very end opens no further line
splitlines(s) ==
    LET breaks == {i \in 1..Len(s) : IsLineBreak(s[i])}
        nb     == Cardinality(breaks)
        brk(k) == IF k = 0 THEN 0
                  ELSE IF k > nb THEN Len(s) + 1
                  ELSE CHOOSE i \in breaks : Cardinality({j \in breaks : j <= i}) = k
        n      == IF s = <<>> THEN 0 ELSE IF Len(s) \in breaks THEN nb ELSE nb + 1
    IN  [k \in 1..n |-> SubSeq(s, brk(k - 1) + 1, brk(k) - 1)]

\* "\n".join(lines[1..n])
RECURSIVE JoinFirst(_, _)
JoinFirst(lines, n) ==
    IF n = 0 THEN <<>>
    ELSE IF n = 1 THEN lines[1]
    ELSE JoinFirst(lines, n - 1) \o <<NL>> \o lines[n]

join(lines) == JoinFirst(lines, Len(lines))

\* lines[1:-1]
InnerLines(lines) == SubSeq(lines, 2, Len(lines) - 1)

IsFenceLine(line) == startswith(strip(line), FENCE)

\* [line for line in lines if not line.strip().startswith(fence)]
DropFenceLines(lines) == SelectSeq(lines, LAMBDA line : ~IsFenceLine(line))

(***************************************************************************)
(* Fence stripping, one operator per variant in the source                 *)
(***************************************************************************)
\* /evaluate and /swot: the text is left untrimmed when it has no fence
StripFirstLast(content) ==
    IF startswith(strip(content), FENCE)
    THEN join(InnerLines(splitlines(strip(content))))
    ELSE content

\* /generate-qa and /generate-alternatives of app.py
StripFenceLines(content) ==
    IF startswith(strip(content), FENCE)
    THEN join(DropFenceLines(splitlines(strip(content))))
    ELSE strip(content)

\* /generate-qa of eval_gen_api.py
StripFirstLastTrimmed(content) ==
    IF startswith(strip(content), FENCE)
    THEN join(InnerLines(splitlines(strip(content))))
    ELSE strip(content)

(***************************************************************************)
(* JSON values                                                             *)
(***************************************************************************)
NumV(n)  == [t |-> "num",  v |-> n]
StrV(s)  == [t |-> "str",  v |-> s]
BoolV(b) == [t |-> "bool", v |-> b]
NullV    == [t |-> "null", v |-> 0]
ArrV(a)  == [t |-> "arr",  v |-> a]
ObjV(f)  == [t |-> "obj",  v |-> f]

\* a key is the text of a JSON string
K(name) == <<name>>

\* the number literals of the alphabet and the numbers they denote
NumberOf == ("0" :> 0) @@ ("4" :> 4) @@ ("7" :> 7) @@ ("11" :> 11)

(***************************************************************************)
(* json.loads: a recursive-descent parser over the chunks                  *)
(***************************************************************************)
Fail == [ok |-> FALSE, val |-> NullV, pos |-> 0]
Ok(v, p) == [ok |-> TRUE, val |-> v, pos |-> p]

RECURSIVE SkipWs(_, _)
SkipWs(s, i) == IF i <= Len(s) /\ IsJsonWs(s[i]) THEN SkipWs(s, i + 1) ELSE i

At(s, i, c) == i <= Len(s) /\ s[i] = c

\* the end of the string whose opening quote is at i - 1: a raw line feed
\* inside a string is an invalid control character
RECURSIVE StringEnd(_, _)
StringEnd(s, i) ==
    IF i > Len(s) \/ s[i] = NL THEN 0
    ELSE IF s[i] = QUOTE THEN i
    ELSE StringEnd(s, i + 1)

ScanString(s, i) ==
    LET e == StringEnd(s, i)
    IN  IF e = 0 THEN Fail ELSE Ok(StrV(SubSeq(s, i, e - 1)), e + 1)

RECURSIVE ScanOnce(_, _)
RECURSIVE ArrayItems(_, _, _)
RECURSIVE ObjectPairs(_, _, _)

ScanOnce(s, i) ==
    IF i > Len(s) THEN Fail
    ELSE IF s[i] = QUOTE THEN ScanString(s, i + 1)
    ELSE IF s[i] = "{" THEN
        LET j == SkipWs(s, i + 1)
        IN  IF At(s, j, "}") THEN Ok(ObjV(<<>>), j + 1) ELSE ObjectPairs(s, j, <<>>)
    ELSE IF s[i] = "[" THEN
        LET j == SkipWs(s, i + 1)
        IN  IF At(s, j, "]") THEN Ok(ArrV(<<>>), j + 1) ELSE ArrayItems(s, j, <<>>)
    ELSE IF s[i] = "null" THEN Ok(NullV, i + 1)
    ELSE IF s[i] = "true" THEN Ok(BoolV(TRUE), i + 1)
    ELSE IF s[i] = "false" THEN Ok(BoolV(FALSE), i + 1)
    ELSE IF s[i] \in DOMAIN NumberOf THEN Ok(NumV(NumberOf[s[i]]), i + 1)
    ELSE Fail

ArrayItems(s, i, acc) ==
    LET r == ScanOnce(s, i)
    IN  IF ~r.ok THEN Fail
        ELSE LET j == SkipWs(s, r.pos)
             IN  IF At(s, j, "]") THEN Ok(ArrV(Append(acc, r.val)), j + 1)
                 ELSE IF At(s, j, ",")
                      THEN ArrayItems(s, SkipWs(s, j + 1), Append(acc, r.val))
                      ELSE Fail

ObjectPairs(s, i, acc) ==
    IF ~At(s, i, QUOTE) THEN Fail
    ELSE LET k == ScanString(s, i + 1)
         IN  IF ~k.ok THEN Fail
             ELSE LET c == SkipWs(s, k.pos)
                  IN  IF ~At(s, c, ":") THEN Fail
                      ELSE LET r == ScanOnce(s, SkipWs(s, c + 1))
                           IN  IF ~r.ok THEN Fail
                               ELSE LET j   == SkipWs(s, r.pos)
                                        \* a repeated key keeps its last value
                                        new == (k.val.v :> r.val) @@ acc
                                    IN  IF At(s, j, "}") THEN Ok(ObjV(new), j + 1)
                                        ELSE IF At(s, j, ",")
                                             THEN ObjectPairs(s, SkipWs(s, j + 1), new)
                                             ELSE Fail

\* faulty variant: the first value is taken and what follows it is ignored
loads_prefix(text) == ScanOnce(text, SkipWs(text, 1))

\* json.loads(text): one value, white space around it, nothing else
loads(text) ==
    LET r == ScanOnce(text, SkipWs(text, 1))
    IN  IF r.ok /\ SkipWs(text, r.pos) = Len(text) + 1 THEN r ELSE Fail

(***************************************************************************)
(* Python's view of a parsed value                                         *)
(***************************************************************************)
RECURSIVE SetToSeq(_)
SetToSeq(S) ==
    IF S = {} THEN <<>>
    ELSE LET x == CHOOSE y \in S : TRUE IN <<x>> \o SetToSeq(S \ {x})

HasKey(d, name) == K(name) \in DOMAIN d.v

\* d.get(name, default) of a dict
Get(d, name, default) == IF HasKey(d, name) THEN d.v[K(name)] ELSE default

\* whether iter(x) succeeds: a list, a dict (its keys) or a str (its characters)
Iterable(x) == x.t \in {"arr", "obj", "str"}

Iter(x) ==
    IF x.t = "arr" THEN x.v
    ELSE IF x.t = "obj" THEN LET ks == SetToSeq(DOMAIN x.v)
                             IN  [i \in 1..Len(ks) |-> StrV(ks[i])]
    ELSE [i \in 1..Len(x.v) |-> StrV(<<x.v[i]>>)]

IsStr(x) == x.t = "str"

\* float(x) succeeds on a number, a bool and a numeric string
FloatOk(x) ==
    \/ x.t \in {"num", "bool"}
    \/ x.t = "str" /\ Len(strip(x.v)) = 1 /\ strip(x.v)[1] \in DOMAIN NumberOf

FloatOf(x) ==
    IF x.t = "num" THEN x.v
    ELSE IF x.t = "bool" THEN (IF x.v THEN 1 ELSE 0)
    ELSE NumberOf[strip(x.v)[1]]

\* bool(x)
Truthy(x) ==
    IF x.t = "bool" THEN x.v
    ELSE IF x.t = "num" THEN x.v # 0
    ELSE IF x.t = "null" THEN FALSE
    ELSE IF x.t = "obj" THEN DOMAIN x.v # {}
    ELSE x.v # <<>>

Min(a, b) == IF a <= b THEN a ELSE b

\* faulty variant: total = score where the code has total += score
LastScore(details) ==
    IF details = <<>> THEN 0
    ELSE FloatOf(Get(details[Len(details)], "score", NumV(0)))

RECURSIVE SumScores(_)
SumScores(details) ==
    IF details = <<>> THEN 0
    ELSE FloatOf(Get(Head(details), "score", NumV(0))) + SumScores(Tail(details))

(***************************************************************************)
(* Responses                                                               *)
(***************************************************************************)
NoResp          == [status |-> "none", body |-> NullV]
Typed(b)        == [status |-> "ok", body |-> b]
\* raise HTTPException(status_code=500, detail=str(e))
InternalError   == [status |-> "internal_error", body |-> NullV]
\* the framework's answer to a body that does not match the handler's model
ValidationError == [status |-> "validation_error", body |-> NullV]

(***************************************************************************)
(* POST /evaluate                                                          *)
(***************************************************************************)
\* faulty variant: the entries are paired with the items from the last one
PairedFromEnd(items, i) == items[Len(items) + 1 - i]

\* the submission item zip() pairs with the i-th entry
PairedItem(items, i) == items[i]

\* faulty variant: an entry that lacks one of the four fields is rejected
EntryComplete(entry) ==
    /\ entry.t = "obj"
    /\ \A k \in {"score", "correct", "feedback", "question"} : HasKey(entry, k)
    /\ FloatOk(entry.v[K("score")])
    /\ IsStr(entry.v[K("feedback")])
    /\ IsStr(entry.v[K("question")])

\* what the loop body needs of an entry: .get, float(score), str fields
EntryOk(entry) ==
    /\ entry.t = "obj"
    /\ FloatOk(Get(entry, "score", NumV(0)))
    /\ IsStr(Get(entry, "feedback", StrV(<<>>)))
    /\ IsStr(Get(entry, "question", StrV(<<>>)))

ScoreDetail(entry, item) ==
    ObjV(   (K("question_id") :> item.v[K("question_id")])
         @@ (K("question") :> Get(entry, "question", StrV(<<>>)))
         @@ (K("score") :> NumV(FloatOf(Get(entry, "score", NumV(0)))))
         @@ (K("correct") :> BoolV(Truthy(Get(entry, "correct", BoolV(FALSE)))))
         @@ (K("feedback") :> Get(entry, "feedback", StrV(<<>>))))

\* the pairs zip(raw, submission.items) yields
ZipLen(entries, items) == Min(Len(entries), Len(items))

evaluate(submission, text) ==
    LET items == submission.v[K("items")].v
        p     == loads(StripFirstLast(text))
    IN  IF ~p.ok \/ ~Iterable(p.val) THEN InternalError
        ELSE LET entries == Iter(p.val)
                 n       == ZipLen(entries, items)
             IN  IF \E i \in 1..n : ~EntryOk(entries[i]) THEN InternalError
                 ELSE LET details ==
                              [i \in 1..n |-> ScoreDetail(entries[i], PairedItem(items, i))]
                      IN  Typed(ObjV(   (K("total_score") :> NumV(SumScores(details)))
                                     @@ (K("details") :> ArrV(details))))

(***************************************************************************)
(* POST /swot                                                              *)
(***************************************************************************)
SwotKeys == {"strengths", "weaknesses", "opportunities", "threats"}

SwotField(data, name) == Get(data, name, StrV(<<>>))

swot_analysis(submission, text) ==
    LET p == loads(StripFirstLast(text))
    IN  IF ~p.ok \/ p.val.t # "obj" THEN InternalError
        ELSE IF \E k \in SwotKeys : ~IsStr(SwotField(p.val, k)) THEN InternalError
        ELSE Typed(ObjV([k \in {K(n) : n \in SwotKeys} |-> SwotField(p.val, k[1])]))

(***************************************************************************)
(* POST /generate-qa                                                       *)
(***************************************************************************)
\* faulty variant: only the question text is required
QuestionTextOnly(question, expected_answer) == IsStr(question)

\* GeneratedQuestion(question=..., expected_answer=...): both must be str;
\* None (an absent key read with .get) is rejected
GeneratedQuestionOk(question, expected_answer) ==
    IsStr(question) /\ IsStr(expected_answer)

GeneratedQuestion(question, expected_answer) ==
    ObjV((K("question") :> question) @@ (K("expected_answer") :> expected_answer))

\* app.py: step 3, a list is replaced by its first element
FirstIfList(parsed) == IF parsed.t = "arr" THEN parsed.v[1] ELSE parsed

\* app.py: step 4, the value must be a dict with the key "questions"
HasQuestions(parsed) == parsed.t = "obj" /\ HasKey(parsed, "questions")

generate_questions(request, text) ==
    LET p == loads(StripFenceLines(text))
    IN  IF ~p.ok THEN InternalError
        ELSE IF p.val.t = "arr" /\ p.val.v = <<>> THEN InternalError
        ELSE LET parsed == FirstIfList(p.val)
             IN  IF ~HasQuestions(parsed) THEN InternalError
                 ELSE IF ~Iterable(parsed.v[K("questions")]) THEN InternalError
                 ELSE LET qs == Iter(parsed.v[K("questions")])
                      IN  IF \E i \in 1..Len(qs) :
                                 \/ qs[i].t # "obj"
                                 \/ ~GeneratedQuestionOk(Get(qs[i], "question", NullV),
                                                         Get(qs[i], "expected_answer", NullV))
                          THEN InternalError
                          ELSE Typed(ObjV(K("questions") :> ArrV(
                                   [i \in 1..Len(qs) |->
                                       GeneratedQuestion(Get(qs[i], "question", NullV),
                                                         Get(qs[i], "expected_answer", NullV))])))

\* eval_gen_api.py: the parsed value itself is iterated, and each element is
\* indexed with q["question"], q["expected_answer"]
generate_questions_v1(request, text) ==
    LET p == loads(StripFirstLastTrimmed(text))
    IN  IF ~p.ok \/ ~Iterable(p.val) THEN InternalError
        ELSE LET qs == Iter(p.val)
             IN  IF \E i \in 1..Len(qs) :
                        \/ qs[i].t # "obj"
                        \/ ~HasKey(qs[i], "question")
                        \/ ~HasKey(qs[i], "expected_answer")
                        \/ ~GeneratedQuestionOk(qs[i].v[K("question")],
                                                qs[i].v[K("expected_answer")])
                 THEN InternalError
                 ELSE Typed(ObjV(   (K("test_title") :> request.v[K("title")])
                                 @@ (K("subject") :> request.v[K("subject")])
                                 @@ (K("class_") :> request.v[K("class_")])
                                 @@ (K("questions") :> ArrV(
                                        [i \in 1..Len(qs) |->
                                            GeneratedQuestion(qs[i].v[K("question")],
                                                              qs[i].v[K("expected_answer")])]))))

(***************************************************************************)
(* POST /generate-alternatives                                             *)
(***************************************************************************)
QuestionTypes == {<<"SHORT_ANSWER">>, <<"MCQ">>, <<"LONG_ANSWER">>}

AlternativeOptionOk(o) ==
    /\ o.t = "obj"
    /\ HasKey(o, "id") /\ IsStr(o.v[K("id")])
    /\ HasKey(o, "text") /\ IsStr(o.v[K("text")])

\* AlternativeQuestion(**q): q is a mapping, the six required fields are
\* there with their types, options is absent, None or a list of options
AlternativeQuestionOk(q) ==
    /\ q.t = "obj"
    /\ \A k \in {"id", "text", "expected_answer"} : HasKey(q, k) /\ IsStr(q.v[K(k)])
    /\ HasKey(q, "type") /\ q.v[K("type")].t = "str" /\ q.v[K("type")].v \in QuestionTypes
    /\ HasKey(q, "answer_type") /\ q.v[K("answer_type")] = StrV(<<"Text">>)
    /\ HasKey(q, "marks") /\ q.v[K("marks")].t = "num"
    /\ LET o == Get(q, "options", NullV)
       IN  \/ o.t = "null"
           \/ o.t = "arr" /\ \A i \in 1..Len(o.v) : AlternativeOptionOk(o.v[i])

AlternativeOption(o) == ObjV((K("id") :> o.v[K("id")]) @@ (K("text") :> o.v[K("text")]))

AlternativeQuestion(q) ==
    LET o == Get(q, "options", NullV)
    IN  ObjV(   [k \in {K(n) : n \in {"id", "type", "text", "answer_type",
                                       "expected_answer", "marks"}} |-> q.v[k]]
             @@ (K("options") :>
                    IF o.t = "null" THEN NullV
                    ELSE ArrV([i \in 1..Len(o.v) |-> AlternativeOption(o.v[i])])))

\* if not isinstance(parsed, list) or len(parsed) != 3: raise ValueError
ThreeAlternatives == 3

\* faulty variant: only too few alternatives are refused
TooFewAlternatives(parsed) == parsed.t # "arr" \/ Len(parsed.v) < ThreeAlternatives

WrongCardinality(parsed) == parsed.t # "arr" \/ Len(parsed.v) # ThreeAlternatives

generate_alternatives(req, text) ==
    LET p == loads(StripFenceLines(text))
    IN  IF ~p.ok THEN InternalError
        ELSE IF WrongCardinality(p.val) THEN InternalError
        ELSE IF \E i \in 1..Len(p.val.v) : ~AlternativeQuestionOk(p.val.v[i])
             THEN InternalError
        ELSE Typed(ArrV([i \in 1..Len(p.val.v) |-> AlternativeQuestion(p.val.v[i])]))

(***************************************************************************)
(* Request bodies: the pydantic models the handlers declare                *)
(***************************************************************************)
HasStr(b, name) == HasKey(b, name) /\ IsStr(b.v[K(name)])
HasInt(b, name) == HasKey(b, name) /\ b.v[K(name)].t = "num"

QuestionItemOk(x) ==
    /\ x.t = "obj"
    /\ \A k \in {"question_id", "question", "actual_answer", "expected_answer"} :
           HasStr(x, k)

SubmissionOk(b) ==
    /\ b.t = "obj"
    /\ HasKey(b, "items") /\ b.v[K("items")].t = "arr"
    /\ \A i \in 1..Len(b.v[K("items")].v) : QuestionItemOk(b.v[K("items")].v[i])

QuestionGenerationRequestOk(b) ==
    /\ b.t = "obj"
    /\ \A k \in {"title", "subject", "class_", "start_date", "end_date",
                 "question_type", "difficulty", "topics", "instructions",
                 "description"} : HasStr(b, k)
    /\ \A k \in {"number_of_questions", "max_score", "passing_score"} : HasInt(b, k)

AlternativeRequestOk(b) ==
    /\ b.t = "obj"
    /\ \A k \in {"id", "title", "description", "subtopic", "difficulty", "subject"} :
           HasStr(b, k)
    /\ HasInt(b, "marks")
    /\ HasStr(b, "questionType") /\ b.v[K("questionType")].v \in QuestionTypes

(***************************************************************************)
(* Routes of the two applications                                          *)
(***************************************************************************)
EVALUATE     == <<"app.py", "/evaluate">>
SWOT         == <<"app.py", "/swot">>
GENERATE_QA  == <<"app.py", "/generate-qa">>
ALTERNATIVES == <<"app.py", "/generate-alternatives">>
HEALTH       == <<"app.py", "/health-check">>
\* eval_gen_api.py serves /evaluate, /swot and /health-check with the same
\* code as app.py; its /generate-qa differs
GENERATE_QA1 == <<"eval_gen_api.py", "/generate-qa">>
NoRoute      == <<"", "">>

PostRoutes == {EVALUATE, SWOT, GENERATE_QA, ALTERNATIVES, GENERATE_QA1}

\* the model the framework validates the body of a route against
BodyOk(route, b) ==
    IF route \in {EVALUATE, SWOT} THEN SubmissionOk(b)
    ELSE IF route \in {GENERATE_QA, GENERATE_QA1} THEN QuestionGenerationRequestOk(b)
    ELSE AlternativeRequestOk(b)

\* the handler's work after the external call has returned text
Handle(route, b, text) ==
    IF route = EVALUATE THEN evaluate(b, text)
    ELSE IF route = SWOT THEN swot_analysis(b, text)
    ELSE IF route = GENERATE_QA THEN generate_questions(b, text)
    ELSE IF route = GENERATE_QA1 THEN generate_questions_v1(b, text)
    ELSE generate_alternatives(b, text)

(***************************************************************************)
(* The external model: what generate_content may return.  A reply is a     *)
(* JSON value written out in some style; the handlers see only the text.   *)
(***************************************************************************)
Sep(lines) == IF lines THEN <<NL, SP>> ELSE <<>>

RECURSIVE Dumps(_, _)
RECURSIVE DumpItems(_, _)
RECURSIVE DumpPairs(_, _, _)

Dumps(x, lines) ==
    IF x.t = "num" THEN <<CHOOSE c \in DOMAIN NumberOf : NumberOf[c] = x.v>>
    ELSE IF x.t = "str" THEN <<QUOTE>> \o x.v \o <<QUOTE>>
    ELSE IF x.t = "bool" THEN (IF x.v THEN <<"true">> ELSE <<"false">>)
    ELSE IF x.t = "null" THEN <<"null">>
    ELSE IF x.t = "arr"
         THEN <<"[">> \o Sep(lines) \o DumpItems(x.v, lines) \o Sep(lines) \o <<"]">>
    ELSE <<"{">> \o DumpPairs(x.v, SetToSeq(DOMAIN x.v), lines) \o <<"}">>

DumpItems(a, lines) ==
    IF a = <<>> THEN <<>>
    ELSE IF Len(a) = 1 THEN Dumps(a[1], lines)
    ELSE Dumps(a[1], lines) \o <<",">> \o Sep(lines) \o DumpItems(Tail(a), lines)

DumpPairs(f, ks, lines) ==
    IF ks = <<>> THEN <<>>
    ELSE LET pair == <<QUOTE>> \o ks[1] \o <<QUOTE, ":", SP>> \o Dumps(f[ks[1]], lines)
         IN  IF Len(ks) = 1 THEN pair
             ELSE pair \o <<",">> \o Sep(lines) \o DumpPairs(f, Tail(ks), lines)

DropLast(s) == SubSeq(s, 1, Len(s) - 1)

Prose == <<"Here", SP, "is", SP, "the", SP, "JSON", ":">>

\* well-formed JSON: bare or inside a fenced block, with or without a language
\* tag, on one line or several, with or without surrounding white space
GoodStyles == {"bare", "bare_lines", "bare_padded",
               "fenced", "tagged_lines", "tagged_padded"}

FencedStyles == {"fenced", "tagged_lines", "tagged_padded"}

\* truncated or non-JSON text
MalformedStyles == {"truncated", "tagged_truncated", "unclosed_truncated",
                    "prose", "trailing"}

Styles == GoodStyles \cup MalformedStyles

Render(x, style) ==
    IF style = "bare" THEN Dumps(x, FALSE)
    ELSE IF style = "bare_lines" THEN Dumps(x, TRUE)
    ELSE IF style = "bare_padded" THEN <<NL, SP>> \o Dumps(x, FALSE) \o <<SP, NL>>
    ELSE IF style = "fenced" THEN <<FENCE, NL>> \o Dumps(x, FALSE) \o <<NL, FENCE>>
    ELSE IF style = "tagged_lines"
         THEN <<FENCE, "json", NL>> \o Dumps(x, TRUE) \o <<NL, FENCE>>
    ELSE IF style = "tagged_padded"
         THEN <<SP, NL, FENCE, "json", NL>> \o Dumps(x, FALSE) \o <<NL, FENCE, NL>>
    ELSE IF style = "truncated" THEN DropLast(Dumps(x, FALSE))
    ELSE IF style = "tagged_truncated"
         THEN <<FENCE, "json", NL>> \o DropLast(Dumps(x, TRUE)) \o <<NL, FENCE>>
    ELSE IF style = "unclosed_truncated"
         THEN <<FENCE, "json", NL>> \o DropLast(Dumps(x, TRUE))
    ELSE IF style = "prose" THEN Prose \o <<NL>> \o Dumps(x, FALSE)
    ELSE Dumps(x, FALSE) \o <<NL>> \o Prose

\* the same value as the model would return it without a fence
Unfenced(style) ==
    IF style = "fenced" THEN "bare"
    ELSE IF style = "tagged_lines" THEN "bare_lines"
    ELSE IF style = "tagged_padded" THEN "bare_padded"
    ELSE style

NoReply    == [kind |-> "none",  val |-> NullV, style |-> "bare"]
\* generate_content raised (network, auth, quota)
Raised     == [kind |-> "raise", val |-> NullV, style |-> "bare"]
Text(x, style) == [kind |-> "text", val |-> x, style |-> style]

ReplyText(d) == Render(d.val, d.style)

(***************************************************************************)
(* Bounds                                                                  *)
(***************************************************************************)
MaxReq       == 2   \* requests in flight at once
MaxItems     == 2   \* items of a submission
MaxEntries   == 3   \* entries of the array the model returns to /evaluate
MaxQuestions == 2   \* generated questions in a reply
MaxExtra     == 1   \* alternatives beyond the three asked for

Requests == 1..MaxReq

Word(w) == StrV(<<w>>)

(***************************************************************************)
(* Request bodies                                                          *)
(***************************************************************************)
Item(i) ==
    ObjV(   (K("question_id") :> StrV(<<"q", ToString(i)>>))
         @@ (K("question") :> StrV(<<"Q", ToString(i)>>))
         @@ (K("actual_answer") :> Word("given"))
         @@ (K("expected_answer") :> Word("wanted")))

Submission(items) == ObjV(K("items") :> ArrV(items))

FirstItems(n) == [i \in 1..n |-> Item(i)]
LastFirst(n)  == [i \in 1..n |-> Item(n + 1 - i)]

ValidSubmissions ==
    {Submission(FirstItems(n)) : n \in 0..MaxItems}
        \cup {Submission(LastFirst(n)) : n \in 2..MaxItems}

\* an item without question_id
InvalidSubmission ==
    Submission(<<ObjV(   (K("question") :> Word("Q1"))
                      @@ (K("actual_answer") :> Word("given"))
                      @@ (K("expected_answer") :> Word("wanted")))>>)

ValidQuestionGenerationRequest ==
    ObjV(   [k \in {K(n) : n \in {"title", "subject", "class_", "start_date",
                                   "end_date", "question_type", "difficulty",
                                   "topics", "instructions", "description"}}
                |-> Word(k[1])]
         @@ [k \in {K(n) : n \in {"number_of_questions", "max_score", "passing_score"}}
                |-> NumV(4)])

\* number_of_questions is not an integer
InvalidQuestionGenerationRequest ==
    ObjV((K("number_of_questions") :> NullV) @@ ValidQuestionGenerationRequest.v)

ValidAlternativeRequest ==
    ObjV(   [k \in {K(n) : n \in {"id", "title", "description", "subtopic",
                                   "difficulty", "subject"}} |-> Word(k[1])]
         @@ (K("marks") :> NumV(4))
         @@ (K("questionType") :> Word("MCQ")))

\* questionType is none of the three literals
InvalidAlternativeRequest ==
    ObjV((K("questionType") :> Word("ESSAY")) @@ ValidAlternativeRequest.v)

Bodies(route) ==
    IF route \in {EVALUATE, SWOT} THEN ValidSubmissions \cup {InvalidSubmission}
    ELSE IF route \in {GENERATE_QA, GENERATE_QA1}
         THEN {ValidQuestionGenerationRequest, InvalidQuestionGenerationRequest}
    ELSE {ValidAlternativeRequest, InvalidAlternativeRequest}

\* the bodies of the runs with several requests in flight
FewBodies(route) ==
    IF route = EVALUATE
    THEN {Submission(FirstItems(2)), Submission(LastFirst(2)), InvalidSubmission}
    ELSE IF route = SWOT THEN {Submission(FirstItems(1)), InvalidSubmission}
    ELSE Bodies(route)

(***************************************************************************)
(* Replies of the external model, per route                                *)
(***************************************************************************)
SeqsUpTo(S, n) == UNION {[1..k -> S] : k \in 0..n}

Without(x, name) == ObjV([k \in DOMAIN x.v \ {K(name)} |-> x.v[k]])
With(x, name, y) == ObjV((K(name) :> y) @@ x.v)

EmptyObj == ObjV(<<>>)

\* a string with a raw U+2028 in it
TwoLines == StrV(<<"first", LS, "second">>)

Entry(question, score, correct, feedback) ==
    ObjV(   (K("question") :> Word(question))
         @@ (K("score") :> NumV(score))
         @@ (K("correct") :> BoolV(correct))
         @@ (K("feedback") :> Word(feedback)))

E1 == Entry("Q1", 7, TRUE, "good")
E2 == Entry("Q2", 4, FALSE, "weak")

EntryKeys == {"question", "score", "correct", "feedback"}

CoreEntries == {E1, E2, EmptyObj}

SpecialEntries ==
    {Without(E1, k) : k \in EntryKeys}
        \cup {With(E1, "score", NullV), With(E1, "feedback", NullV),
              With(E1, "question", NullV), With(E1, "feedback", TwoLines),
              With(E1, "score", NumV(11)), With(E1, "score", Word("7")),
              With(E1, "correct", NumV(0)), NumV(7)}

EvaluateValues ==
    {ArrV(a) : a \in SeqsUpTo(CoreEntries, MaxEntries)}
        \cup {ArrV(<<x>>) : x \in SpecialEntries}
        \cup {ArrV(<<E1, x>>) : x \in SpecialEntries}
        \cup {ArrV(<<x, E2>>) : x \in SpecialEntries}
        \cup {EmptyObj, E1, NumV(7), StrV(<<>>), Word("text"), NullV}

SwotObj(keys) == ObjV([k \in {K(n) : n \in keys} |-> Word(k[1])])

SwotValues ==
    {SwotObj(keys) : keys \in SUBSET SwotKeys}
        \cup {With(SwotObj(SwotKeys), "threats", NullV),
              With(SwotObj(SwotKeys), "strengths", TwoLines),
              ArrV(<<SwotObj(SwotKeys)>>), NumV(7), NullV}

GQ(i) ==
    ObjV(   (K("question") :> StrV(<<"Q", ToString(i)>>))
         @@ (K("expected_answer") :> Word("wanted")))

QuestionElems == {GQ(1), Without(GQ(1), "expected_answer"), NumV(7)}

Questions(qs) == ObjV(K("questions") :> qs)

GenerateValues ==
    {Questions(ArrV(qs)) : qs \in SeqsUpTo(QuestionElems, MaxQuestions)}
        \cup {ArrV(<<Questions(ArrV(qs))>>) : qs \in SeqsUpTo(QuestionElems, MaxQuestions)}
        \cup {ArrV(qs) : qs \in SeqsUpTo(QuestionElems, MaxQuestions)}
        \cup {Questions(NullV), Questions(EmptyObj), Questions(StrV(<<>>)),
              Questions(Word("none")), Questions(GQ(1)),
              Questions(ArrV(<<With(GQ(1), "question", TwoLines)>>)),
              ArrV(<<Questions(ArrV(<<GQ(1)>>)), NumV(7)>>),
              ArrV(<<NumV(7), Questions(ArrV(<<GQ(1)>>))>>),
              ArrV(<<EmptyObj>>),
              EmptyObj, ObjV(K("title") :> Word("title")),
              NumV(7), NullV, StrV(<<>>), Word("text")}

Alt ==
    ObjV(   (K("id") :> Word("id"))
         @@ (K("type") :> Word("MCQ"))
         @@ (K("text") :> Word("text"))
         @@ (K("answer_type") :> Word("Text"))
         @@ (K("expected_answer") :> Word("wanted"))
         @@ (K("marks") :> NumV(4)))

Option == ObjV((K("id") :> Word("a")) @@ (K("text") :> Word("text")))

AlternativeValues ==
    {ArrV(a) : a \in SeqsUpTo({Alt, Without(Alt, "marks")}, ThreeAlternatives + MaxExtra)}
        \cup {ArrV(<<Alt, Alt, x>>) :
                 x \in {With(Alt, "options", ArrV(<<Option>>)),
                        With(Alt, "options", ArrV(<<Without(Option, "id")>>)),
                        With(Alt, "type", Word("ESSAY")),
                        With(Alt, "answer_type", Word("Number")),
                        With(Alt, "text", TwoLines),
                        NumV(7)}}
        \cup {Alt, EmptyObj, Questions(ArrV(<<Alt, Alt, Alt>>)), NumV(7), NullV}

Values(route) ==
    IF route = EVALUATE THEN EvaluateValues
    ELSE IF route = SWOT THEN SwotValues
    ELSE IF route \in {GENERATE_QA, GENERATE_QA1} THEN GenerateValues
    ELSE IF route = ALTERNATIVES THEN AlternativeValues
    ELSE {}

Replies(route) == {Text(x, style) : x \in Values(route), style \in Styles}

\* the replies of the runs with several requests in flight
FewReplies(route) ==
    IF route = EVALUATE
    THEN {Text(ArrV(<<E1, E2>>), "tagged_lines"), Text(ArrV(<<E2>>), "bare"),
          Text(ArrV(<<E1>>), "truncated")}
    ELSE IF route = SWOT
    THEN {Text(SwotObj(SwotKeys), "fenced"), Text(SwotObj(SwotKeys), "prose")}
    ELSE IF route \in {GENERATE_QA, GENERATE_QA1}
    THEN {Text(Questions(ArrV(<<GQ(1)>>)), "bare"), Text(ArrV(<<GQ(1)>>), "fenced")}
    ELSE IF route = ALTERNATIVES
    THEN {Text(ArrV(<<Alt, Alt, Alt>>), "tagged_lines"), Text(ArrV(<<Alt>>), "bare")}
    ELSE {}

(***************************************************************************)
(* The service                                                             *)
(***************************************************************************)
Init ==
    /\ pc = [r \in Requests |-> "idle"]
    /\ ep = [r \in Requests |-> NoRoute]
    /\ body = [r \in Requests |-> NullV]
    /\ reply = [r \in Requests |-> NoReply]
    /\ resp = [r \in Requests |-> NoResp]
    /\ calls = [r \in Requests |-> 0]
    /\ service = "up"

\* the handler's own parameter
RequestBody(r) == body[r]

\* faulty variant: the model is called before the body is validated
CallBeforeValidation(route, b) == 1

\* generate_content calls a request makes when it arrives: the framework runs
\* the handler, whose first statements build the prompt and call the model,
\* only with a body that matches the handler's model
ModelCalls(route, b) == IF BodyOk(route, b) THEN 1 ELSE 0

\* calls the except clause adds after generate_content has raised
RetryCalls(route) == 0

\* faulty variant: the reply is kept in a module-level variable that the
\* first request has already filled
SharedReply(r, d) == IF reply[1].kind = "text" THEN reply[1] ELSE d

\* the handler's local variable holding the reply to its own call
OwnReply(r, d) == d

\* a POST request arrives: validation, then the handler up to the external call
Receive(r, route, bodies) ==
    /\ pc[r] = "idle"
    /\ \E b \in bodies :
          /\ ep' = [ep EXCEPT ![r] = route]
          /\ body' = [body EXCEPT ![r] = b]
          /\ calls' = [calls EXCEPT ![r] = @ + ModelCalls(route, b)]
          /\ IF BodyOk(route, b)
             THEN /\ pc' = [pc EXCEPT ![r] = "calling"]
                  /\ resp' = resp
             ELSE /\ pc' = [pc EXCEPT ![r] = "done"]
                  /\ resp' = [resp EXCEPT ![r] = ValidationError]
    /\ UNCHANGED <<reply, service>>

\* the external call returns or raises: the rest of the handler
Complete(r, replies) ==
    /\ pc[r] = "calling"
    /\ IF service = "down"
       THEN /\ reply' = [reply EXCEPT ![r] = Raised]
            /\ resp' = [resp EXCEPT ![r] = InternalError]
            /\ calls' = [calls EXCEPT ![r] = @ + RetryCalls(ep[r])]
       ELSE /\ \E d \in replies :
                  /\ reply' = [reply EXCEPT ![r] = d]
                  /\ resp' = [resp EXCEPT ![r] =
                                 Handle(ep[r], RequestBody(r), ReplyText(OwnReply(r, d)))]
            /\ calls' = calls
    /\ pc' = [pc EXCEPT ![r] = "done"]
    /\ UNCHANGED <<ep, body, service>>

\* faulty variant: the health check reports the state of the external service
health_probe ==
    IF service = "up" THEN Typed(ObjV(K("status") :> StrV(<<"ok">>))) ELSE InternalError

\* return {"status": "ok"}
health_check == Typed(ObjV(K("status") :> Word("ok")))

\* GET /health-check
HealthCheck(r) ==
    /\ pc[r] = "idle"
    /\ ep' = [ep EXCEPT ![r] = HEALTH]
    /\ resp' = [resp EXCEPT ![r] = health_check]
    /\ pc' = [pc EXCEPT ![r] = "done"]
    /\ UNCHANGED <<body, reply, calls, service>>

\* the external service goes down or comes back
ServiceChange ==
    /\ service' = IF service = "up" THEN "down" ELSE "up"
    /\ UNCHANGED <<pc, ep, body, reply, resp, calls>>

\* several requests in flight, few bodies and replies
Next ==
    \/ \E r \in Requests, route \in PostRoutes : Receive(r, route, FewBodies(route))
    \/ \E r \in Requests : Complete(r, FewReplies(ep[r]))
    \/ \E r \in Requests : HealthCheck(r)
    \/ ServiceChange

Spec == Init /\ [][Next]_vars

\* one request, every body and reply of the bounded sets
NextOne ==
    \/ \E route \in PostRoutes : Receive(1, route, Bodies(route))
    \/ Complete(1, Replies(ep[1]))
    \/ HealthCheck(1)
    \/ ServiceChange

SpecOne == Init /\ [][NextOne]_vars

(***************************************************************************)
(* Vocabulary of the properties                                            *)
(***************************************************************************)
\* request r got text from the model on the given route and has answered
Answered(r, route) == pc[r] = "done" /\ ep[r] = route /\ reply[r].kind = "text"

\* the fence stripping and the parse of each route
ParsedReply(route, text) ==
    IF route \in {EVALUATE, SWOT} THEN loads(StripFirstLast(text))
    ELSE IF route = GENERATE_QA1 THEN loads(StripFirstLastTrimmed(text))
    ELSE loads(StripFenceLines(text))

Parsed(r) == ParsedReply(ep[r], ReplyText(reply[r]))

ItemsOf(r) == body[r].v[K("items")].v
DetailsOf(r) == resp[r].body.v[K("details")].v
Field(x, name) == x.v[K(name)]

IsObjectArray(x, n) ==
    x.t = "arr" /\ Len(x.v) = n /\ \A i \in 1..n : x.v[i].t = "obj"

\* an entry whose fields, where present, have the types the prompt asks for:
\* a score float() accepts, text for feedback and question
WellTyped(entry) ==
    /\ entry.t = "obj"
    /\ HasKey(entry, "score") => FloatOk(Field(entry, "score"))
    /\ HasKey(entry, "feedback") => Field(entry, "feedback").t = "str"
    /\ HasKey(entry, "question") => Field(entry, "question").t = "str"

PositionalPairing(r) ==
    /\ resp[r].status = "ok"
    /\ Len(DetailsOf(r)) = Len(ItemsOf(r))
    /\ \A i \in 1..Len(ItemsOf(r)) :
           Field(DetailsOf(r)[i], "question_id") = Field(ItemsOf(r)[i], "question_id")

(***************************************************************************)
(* C1                                                                      *)
(***************************************************************************)
\* C1, as stated: whenever the model output parses to an array of exactly as
\* many objects as the submission has items, /evaluate succeeds with one
\* ScoreDetail per item, the i-th carrying the question_id of the i-th item.
C1_AsStated ==
    \A r \in Requests :
        Answered(r, EVALUATE) =>
            LET p == Parsed(r)
            IN  (p.ok /\ IsObjectArray(p.val, Len(ItemsOf(r))))
                    => PositionalPairing(r)

\* C1, amended: the same for every model output that parses to an array of
\* exactly n objects whose score, where present, is accepted by float() and
\* whose feedback and question, where present, are strings.
C1_PositionalPairing ==
    \A r \in Requests :
        Answered(r, EVALUATE) =>
            LET p == Parsed(r)
            IN  (/\ p.ok
                 /\ IsObjectArray(p.val, Len(ItemsOf(r)))
                 /\ \A i \in 1..Len(ItemsOf(r)) : WellTyped(p.val.v[i]))
                    => PositionalPairing(r)

\* two items submitted as q2, q1; the model answers about Q1 first, then Q2:
\* the first detail carries q2 and the question text Q1
C1_Witness ==
    \E r \in Requests :
        /\ Answered(r, EVALUATE)
        /\ body[r] = Submission(LastFirst(2))
        /\ reply[r].val = ArrV(<<E1, E2>>)
        /\ reply[r].style = "tagged_lines"
        /\ resp[r].status = "ok"
        /\ Len(DetailsOf(r)) = 2
        /\ Field(DetailsOf(r)[1], "question_id") = StrV(<<"q", "2">>)
        /\ Field(DetailsOf(r)[1], "question") = Word("Q1")

(***************************************************************************)
(* C2                                                                      *)
(***************************************************************************)
\* C2: for every JSON text J, an endpoint answers the reply that wraps J in a
\* fenced block (optional language tag, optional surrounding white space)
\* exactly as it answers J itself.
C2_FenceIdempotent ==
    \A r \in Requests :
        (/\ pc[r] = "done"
         /\ reply[r].kind = "text"
         /\ reply[r].style \in FencedStyles)
            => resp[r] = Handle(ep[r], body[r],
                                Render(reply[r].val, Unfenced(reply[r].style)))

(***************************************************************************)
(* C3                                                                      *)
(***************************************************************************)
\* C3: /generate-alternatives answers with an error whenever the value the
\* model wrote is not an array of exactly 3 elements, so that a successful
\* response always holds exactly 3 alternatives.
C3_ExactlyThree ==
    \A r \in Requests :
        Answered(r, ALTERNATIVES) =>
            /\ (reply[r].val.t # "arr" \/ Len(reply[r].val.v) # 3)
                   => resp[r] = InternalError
            /\ resp[r].status = "ok"
                   => /\ resp[r].body.t = "arr" /\ Len(resp[r].body.v) = 3
                      /\ reply[r].val.t = "arr" /\ Len(reply[r].val.v) = 3

\* four well-formed alternatives in a well-formed reply are rejected
C3_Witness ==
    \E r \in Requests :
        /\ Answered(r, ALTERNATIVES)
        /\ reply[r].val = ArrV(<<Alt, Alt, Alt, Alt>>)
        /\ reply[r].style = "bare"
        /\ resp[r] = InternalError

(***************************************************************************)
(* C4                                                                      *)
(***************************************************************************)
\* C4: truncated or non-JSON text from the model ends the request of every
\* POST endpoint with the internal error, never with a typed response.
C4_MalformedIsError ==
    \A r \in Requests :
        (/\ pc[r] = "done"
         /\ reply[r].kind = "text"
         /\ reply[r].style \in MalformedStyles)
            => resp[r] = InternalError

\* /swot got a complete object followed by prose and reported the error
C4_Witness ==
    \E r \in Requests :
        /\ Answered(r, SWOT)
        /\ reply[r].val = SwotObj(SwotKeys)
        /\ reply[r].style = "trailing"
        /\ resp[r] = InternalError

(***************************************************************************)
(* C5                                                                      *)
(***************************************************************************)
\* C5: /evaluate never answers successfully with a result built from only a
\* part of the submission, or from a value that is not an array of objects.
C5_NoPartialResult ==
    \A r \in Requests :
        (Answered(r, EVALUATE) /\ resp[r].status = "ok") =>
            LET p == Parsed(r)
            IN  /\ p.val.t = "arr"
                /\ \A i \in 1..Len(p.val.v) : p.val.v[i].t = "obj"
                /\ Len(DetailsOf(r)) = Len(ItemsOf(r))

(***************************************************************************)
(* C6                                                                      *)
(***************************************************************************)
\* a present value is carried over, an absent one replaced by the default
Defaulted(x, out, name, default, conv(_)) ==
    Field(out, name) = IF HasKey(x, name) THEN conv(Field(x, name)) ELSE default

Same(x) == x
AsFloat(x) == NumV(FloatOf(x))
AsBool(x) == BoolV(Truthy(x))

\* C6: a field missing from the model output is filled with its default
\* (score 0, correct false, feedback and question "", each SWOT field ""),
\* the fields that are present are carried over, and the request succeeds.
C6_Defaults ==
    \A r \in Requests :
        /\ Answered(r, EVALUATE) =>
               LET p == Parsed(r)
               IN  (/\ p.ok
                    /\ p.val.t = "arr"
                    /\ \A i \in 1..Min(Len(p.val.v), Len(ItemsOf(r))) :
                           WellTyped(p.val.v[i]))
                       => /\ resp[r].status = "ok"
                          /\ \A i \in 1..Len(DetailsOf(r)) :
                                 LET x == p.val.v[i]
                                     d == DetailsOf(r)[i]
                                 IN  /\ Defaulted(x, d, "score", NumV(0), AsFloat)
                                     /\ Defaulted(x, d, "correct", BoolV(FALSE), AsBool)
                                     /\ Defaulted(x, d, "feedback", StrV(<<>>), Same)
                                     /\ Defaulted(x, d, "question", StrV(<<>>), Same)
        /\ Answered(r, SWOT) =>
               LET p == Parsed(r)
               IN  (/\ p.ok
                    /\ p.val.t = "obj"
                    /\ \A k \in SwotKeys :
                           HasKey(p.val, k) => Field(p.val, k).t = "str")
                       => /\ resp[r].status = "ok"
                          /\ \A k \in SwotKeys :
                                 Defaulted(p.val, resp[r].body, k, StrV(<<>>), Same)

\* the second of two entries is the empty object: its detail holds the four
\* defaults, while the first keeps what the model wrote
C6_Witness ==
    \E r \in Requests :
        /\ Answered(r, EVALUATE)
        /\ body[r] = Submission(FirstItems(2))
        /\ reply[r].val = ArrV(<<E2, EmptyObj>>)
        /\ reply[r].style = "tagged_padded"
        /\ resp[r].status = "ok"
        /\ Field(DetailsOf(r)[1], "score") = NumV(4)
        /\ Field(DetailsOf(r)[1], "feedback") = Word("weak")
        /\ Field(DetailsOf(r)[2], "score") = NumV(0)
        /\ Field(DetailsOf(r)[2], "correct") = BoolV(FALSE)
        /\ Field(DetailsOf(r)[2], "feedback") = StrV(<<>>)
        /\ Field(DetailsOf(r)[2], "question") = StrV(<<>>)

(***************************************************************************)
(* C7                                                                      *)
(***************************************************************************)
HasQuestionsArray(x) ==
    x.t = "obj" /\ HasKey(x, "questions") /\ Field(x, "questions").t = "arr"

\* the shape the claim names: the object, or a list that starts with it
QuestionsShape(x) ==
    \/ HasQuestionsArray(x)
    \/ x.t = "arr" /\ x.v # <<>> /\ HasQuestionsArray(x.v[1])

\* C7, as stated: /generate-qa succeeds exactly when the parsed output is an
\* object with a questions array, or a list whose first element is one.
C7_AsStated ==
    \A r \in Requests :
        \A route \in {GENERATE_QA, GENERATE_QA1} :
            Answered(r, route) =>
                LET p == Parsed(r)
                IN  resp[r].status = "ok" <=> (p.ok /\ QuestionsShape(p.val))

IsQuestion(q) ==
    /\ q.t = "obj"
    /\ HasKey(q, "question") /\ Field(q, "question").t = "str"
    /\ HasKey(q, "expected_answer") /\ Field(q, "expected_answer").t = "str"

\* a list of questions; an empty object or an empty string, iterated by the
\* handler, is a list of none
AllQuestions(x) ==
    \/ x.t = "arr" /\ \A i \in 1..Len(x.v) : IsQuestion(x.v[i])
    \/ x = EmptyObj
    \/ x = StrV(<<>>)

QuestionsOf(x) == IF x.t = "arr" THEN x.v ELSE <<>>

\* the object with the key questions that app.py looks for
QuestionsHolder(x) ==
    IF x.t = "arr" /\ x.v # <<>> THEN x.v[1] ELSE x

ReturnsQuestions(r, qs) ==
    /\ resp[r].status = "ok"
    /\ Field(resp[r].body, "questions") =
           ArrV([i \in 1..Len(qs) |->
                    GeneratedQuestion(Field(qs[i], "question"),
                                      Field(qs[i], "expected_answer"))])

\* C7, amended: /generate-qa of app.py succeeds exactly when the parsed output
\* is an object with the key questions, or a list whose first element is such
\* an object, and every element of questions is an object with a string
\* question and a string expected_answer; those questions are returned in
\* order.  /generate-qa of eval_gen_api.py succeeds exactly when the parsed
\* output is itself a list of such question objects.  Every other parsed
\* value is a reported error.
C7_GenerateQa ==
    \A r \in Requests :
        /\ Answered(r, GENERATE_QA) =>
               LET p == Parsed(r)
                   h == QuestionsHolder(p.val)
                   accepted == /\ p.ok
                               /\ h.t = "obj" /\ HasKey(h, "questions")
                               /\ AllQuestions(Field(h, "questions"))
               IN  IF accepted
                   THEN ReturnsQuestions(r, QuestionsOf(Field(h, "questions")))
                   ELSE resp[r] = InternalError
        /\ Answered(r, GENERATE_QA1) =>
               LET p == Parsed(r)
               IN  IF p.ok /\ AllQuestions(p.val)
                   THEN ReturnsQuestions(r, QuestionsOf(p.val))
                   ELSE resp[r] = InternalError

\* an object with a questions array, one of whose two elements lacks
\* expected_answer, is answered with the error
C7_Witness ==
    \E r \in Requests :
        /\ Answered(r, GENERATE_QA)
        /\ reply[r].val = Questions(ArrV(<<GQ(1), Without(GQ(1), "expected_answer")>>))
        /\ reply[r].style = "bare_lines"
        /\ Parsed(r).ok /\ QuestionsShape(Parsed(r).val)
        /\ resp[r] = InternalError

(***************************************************************************)
(* C8                                                                      *)
(***************************************************************************)
InvalidBodies ==
    {InvalidSubmission, InvalidQuestionGenerationRequest, InvalidAlternativeRequest}

\* C8: the external model is called only for a request whose body passed
\* validation, and at most once per request: a rejected request has made no
\* call, and a request whose call raised ends with the internal error after
\* that single call.
C8_ValidateThenCallOnce ==
    \A r \in Requests :
        /\ calls[r] <= 1
        /\ body[r] \in InvalidBodies
               => calls[r] = 0 /\ pc[r] = "done" /\ resp[r] = ValidationError
        /\ resp[r] = ValidationError => calls[r] = 0 /\ reply[r] = NoReply
        /\ pc[r] = "calling" => calls[r] = 1
        /\ reply[r] = Raised
               => calls[r] = 1 /\ pc[r] = "done" /\ resp[r] = InternalError

\* one request was rejected by validation without a call while the call of
\* another raised and was answered with the internal error
C8_Witness ==
    \E r, q \in Requests :
        /\ ep[r] = ALTERNATIVES /\ body[r] = InvalidAlternativeRequest
        /\ resp[r] = ValidationError /\ calls[r] = 0
        /\ ep[q] = EVALUATE /\ reply[q] = Raised
        /\ resp[q] = InternalError /\ calls[q] = 1

(***************************************************************************)
(* C9                                                                      *)
(***************************************************************************)
DataOf(r) == <<pc[r], ep[r], body[r], reply[r], resp[r], calls[r]>>

\* the response is the handler's result on the request's own body and reply
OwnResponse(r) ==
    Answered(r, ep[r]) => resp[r] = Handle(ep[r], body[r], ReplyText(reply[r]))

\* a step touches at most one request, and never one that has answered
OneRequestPerStep ==
    /\ \A r \in Requests : pc[r] = "done" => DataOf(r)' = DataOf(r)
    /\ \A r, q \in Requests :
           (DataOf(r)' # DataOf(r) /\ DataOf(q)' # DataOf(q)) => r = q

\* C9: requests in flight do not interact.  Under every interleaving, the
\* response of a request is the handler's result on its own body and the
\* reply to its own call, two requests with the same route, body and reply
\* get the same response, and no step of one request changes another's data.
C9_NoInterference ==
    /\ [](\A r \in Requests : OwnResponse(r))
    /\ [](\A r, q \in Requests :
             (/\ pc[r] = "done" /\ pc[q] = "done"
              /\ ep[r] = ep[q] /\ body[r] = body[q] /\ reply[r] = reply[q])
                 => resp[r] = resp[q])
    /\ [][OneRequestPerStep]_vars

\* two /evaluate requests with different submissions got the same reply and
\* each carries its own question ids
C9_Witness ==
    \E r, q \in Requests :
        /\ Answered(r, EVALUATE) /\ Answered(q, EVALUATE)
        /\ reply[r] = reply[q]
        /\ body[r] = Submission(FirstItems(2))
        /\ body[q] = Submission(LastFirst(2))
        /\ resp[r].status = "ok" /\ resp[q].status = "ok"
        /\ Field(DetailsOf(r)[1], "question_id") = StrV(<<"q", "1">>)
        /\ Field(DetailsOf(q)[1], "question_id") = StrV(<<"q", "2">>)

(***************************************************************************)
(* C10                                                                     *)
(***************************************************************************)
\* C10: /health-check answers {status: "ok"} in every state of the service,
\* whether the external model is up or down and whatever other requests are
\* in flight, and makes no external call.
C10_HealthCheck ==
    \A r \in Requests :
        /\ ep[r] = HEALTH
               => /\ pc[r] = "done"
                  /\ resp[r] = Typed(ObjV(K("status") :> StrV(<<"ok">>)))
                  /\ calls[r] = 0
                  /\ reply[r] = NoReply
        /\ pc[r] = "idle" => ENABLED HealthCheck(r)

\* a health check was answered while the external service is down and the
\* call of another request is outstanding
C10_Witness ==
    \E r, q \in Requests :
        /\ ep[r] = HEALTH /\ resp[r].status = "ok" /\ calls[r] = 0
        /\ service = "down"
        /\ pc[q] = "calling"


(***************************************************************************)
(* C11                                                                     *)
(***************************************************************************)
\* C11: every ScoreDetail of a successful /evaluate response has a score
\* between 0 and 10 inclusive, whatever the model returned.
C11_ScoreInRange ==
    \A r \in Requests :
        (Answered(r, EVALUATE) /\ resp[r].status = "ok") =>
            \A i \in 1..Len(DetailsOf(r)) :
                LET score == Field(DetailsOf(r)[i], "score").v
                IN  0 <= score /\ score <= 10

(***************************************************************************)
(* C12                                                                     *)
(***************************************************************************)
\* the sum of the score fields of the first n ScoreDetail entries
RECURSIVE ScoreSum(_, _)
ScoreSum(details, n) ==
    IF n = 0 THEN 0
    ELSE ScoreSum(details, n - 1) + Field(details[n], "score").v

\* C12: in every successful /evaluate response total_score is the sum of the
\* score fields of exactly the entries of details (0 when details is empty),
\* and those are the scores of the model's entries that were paired with a
\* submission item: an entry beyond the last item contributes nothing.
C12_TotalIsSumOfDetails ==
    \A r \in Requests :
        (Answered(r, EVALUATE) /\ resp[r].status = "ok") =>
            LET entries == Iter(Parsed(r).val)
                details == DetailsOf(r)
                total   == Field(resp[r].body, "total_score")
            IN  /\ total = NumV(ScoreSum(details, Len(details)))
                /\ details = <<>> => total = NumV(0)
                /\ Len(details) = Min(Len(entries), Len(ItemsOf(r)))
                /\ \A i \in 1..Len(details) :
                       Field(details[i], "score")
                           = NumV(FloatOf(Get(entries[i], "score", NumV(0))))

\* two items were submitted and the model returned three entries scored 7, 4
\* and 7: the response lists two details and its total is 11, not 18
C12_Witness ==
    \E r \in Requests :
        /\ Answered(r, EVALUATE)
        /\ body[r] = Submission(FirstItems(2))
        /\ reply[r].val = ArrV(<<E1, E2, E1>>)
        /\ reply[r].style = "fenced"
        /\ resp[r].status = "ok"
        /\ Len(DetailsOf(r)) = 2
        /\ Field(resp[r].body, "total_score") = NumV(11)

====
